---- MODULE Spec2Model ----
(***************************************************************************)
(* A state-machine model of translate2.py: a Streamlit script that shows a *)
(* Login/Register view until st.session_state.logged_in is set, and a chat *)
(* style translator view afterwards.  One script run is one step; a run    *)
(* that ends in st.rerun() is followed at once by a run without an event.  *)
(***************************************************************************)
EXTENDS Integers, Sequences, FiniteSets, TLC

VARIABLES
    secrets,        \* st.secrets: the set of configuration keys that hold a value
    session_state,  \* st.session_state: a record whose domain is the set of keys present
    accounts,       \* the identity provider's registry: a set of <<email, password>>
    pc,             \* "idle": waiting for a user event; "rerun": st.rerun() was called
    shown,          \* the st.error / st.warning / st.success / st.info texts of the last run
    calls,          \* external calls issued by the last user action
    crashed,        \* the last run ended in an exception nothing caught
    last,           \* history: the last user event, its inputs and the answers it got
    hist            \* history: the transcript before the current series of submissions

vars == <<secrets, session_state, accounts, pc, shown, calls, crashed, last, hist>>

-----------------------------------------------------------------------------
(* Bounds of the model *)

\* the chat input is offered only while the transcript has room for one more pair
MaxMessages == 5

(* Program constants *)

\* len(register_password) >= 6
MinPasswordLen == 6

\* requests' raise_for_status raises for 400 <= status < 600
HttpErrorMin == 400

\* the status the except branches look for
HttpBadRequest == 400

-----------------------------------------------------------------------------
(* Python values *)

None == [NoneType |-> TRUE]

EmptyDict == <<>>

\* d[k] = v
Put(d, k, v) == [j \in (DOMAIN d) \cup {k} |-> IF j = k THEN v ELSE d[j]]

\* del d[k]
Del(d, ks) == [j \in (DOMAIN d) \ ks |-> d[j]]

\* d.get(k, default)
Get(d, k, default) == IF k \in DOMAIN d THEN d[k] ELSE default

\* truth value of a returned user_data: None and {} are false
Truthy(v) == v # None /\ v # EmptyDict

\* sub in s
Contains(s, sub) ==
    \E i \in 1..Len(s) : i + Len(sub) - 1 <= Len(s) /\ SubSeq(s, i, i + Len(sub) - 1) = sub

-----------------------------------------------------------------------------
(* Inputs the model draws from *)

Emails == {"", "ann@x.io", "bob@x.io"}

Passwords == {"", "12345", "secret1", "secret2"}

Texts == {"Hello", "Adios"}

\* what response.text can be when generate_content succeeds
Replies == {"Hola"}

\* str(e) of what generate_content can raise
Failures == {"quota exceeded"}

LANGUAGES ==
    << "English", "Hindi", "Spanish", "French", "German", "Japanese",
       "Chinese (Simplified)", "Telugu", "Tamil", "Kannada", "Malayalam",
       "Bengali", "Gujarati", "Punjabi" >>

\* the entries of the selectboxes the model's user picks among
Selectable == {LANGUAGES[1], LANGUAGES[2]}

-----------------------------------------------------------------------------
(* Startup configuration *)

FirebaseKeys ==
    {"FIREBASE_API_KEY", "FIREBASE_AUTH_DOMAIN", "FIREBASE_PROJECT_ID", "FIREBASE_APP_ID"}

ConfigKeys == {"GOOGLE_API_KEY"} \cup FirebaseKeys

\* the deployments the model starts from: everything set, or one key missing, or none set
Deployments == {ConfigKeys, {}} \cup {ConfigKeys \ {k} : k \in ConfigKeys}

\* the startup checks with FIREBASE_APP_ID left out of the all([...]) list
StartupError_AppIdUnchecked(s) ==
    IF "GOOGLE_API_KEY" \notin s
    THEN "Google API Key not found in Streamlit secrets. Please add it to .streamlit/secrets.toml"
    ELSE IF ~((FirebaseKeys \ {"FIREBASE_APP_ID"}) \subseteq s)
         THEN "Missing Firebase configuration in .streamlit/secrets.toml. Please check your setup."
         ELSE ""

\* the checks at the top of the script: the st.error text the run stops with at
\* st.stop(), or "" when the run goes on
StartupError(s) ==
    IF "GOOGLE_API_KEY" \notin s
    THEN "Google API Key not found in Streamlit secrets. Please add it to .streamlit/secrets.toml"
    ELSE IF ~(FirebaseKeys \subseteq s)
         THEN "Missing Firebase configuration in .streamlit/secrets.toml. Please check your setup."
         ELSE ""

-----------------------------------------------------------------------------
(* The identity provider, seen through requests.post *)

\* a response object; received = FALSE is a transport failure (requests.post raises)
HttpResponse(status, reason, body) ==
    [received |-> TRUE, status |-> status, reason |-> reason, body |-> body]

NoResponse ==
    [received |-> FALSE, status |-> 0, reason |-> "Connection aborted", body |-> EmptyDict]

\* no request was made
NoCall ==
    [received |-> FALSE, status |-> 0, reason |-> "", body |-> EmptyDict]

ErrorBody(message) == [error |-> [message |-> message]]

\* the JSON of a successful signUp / signInWithPassword
AccountRecord(email) ==
    [email |-> email, localId |-> "uid:" \o email, idToken |-> "tok:" \o email]

Registered(email) == \E a \in accounts : a[1] = email

\* what the provider may answer to signUp, with the accounts it adds
SignUpAnswers(email, password) ==
    {[response |-> NoResponse, adds |-> {}],
     [response |-> HttpResponse(500, "500 Server Error", EmptyDict), adds |-> {}],
     [response |-> HttpResponse(200, "OK", EmptyDict), adds |-> {}]}
    \cup
    (IF Registered(email)
     THEN {[response |-> HttpResponse(400, "400 Client Error", ErrorBody("EMAIL_EXISTS")),
            adds |-> {}]}
     ELSE {[response |-> HttpResponse(200, "OK", AccountRecord(email)),
            adds |-> {<<email, password>>}],
           [response |-> HttpResponse(400, "400 Client Error", EmptyDict), adds |-> {}]})

\* what the provider may answer to signInWithPassword
LogInAnswers(email, password) ==
    {[response |-> NoResponse, adds |-> {}],
     [response |-> HttpResponse(500, "500 Server Error", EmptyDict), adds |-> {}],
     [response |-> HttpResponse(200, "OK", EmptyDict), adds |-> {}]}
    \cup
    (IF <<email, password>> \in accounts
     THEN {[response |-> HttpResponse(200, "OK", AccountRecord(email)), adds |-> {}]}
     ELSE {[response |-> HttpResponse(400, "400 Client Error",
                                      ErrorBody("INVALID_LOGIN_CREDENTIALS")),
            adds |-> {}]})

-----------------------------------------------------------------------------
(* Firebase authentication functions *)

\* the result of a call: the value returned, the messages shown, and whether an
\* exception left the function instead of a return
Returned(value, messages) == [value |-> value, shown |-> messages, raised |-> FALSE]

Raised(messages) == [value |-> None, shown |-> messages, raised |-> TRUE]

\* the body of `except requests.exceptions.RequestException as e` in both functions;
\* with no response object the name `response` is unbound and reading it raises
ExceptRequestException(response, failed, unknown) ==
    IF ~response.received
    THEN Raised(<<failed \o response.reason>>)
    ELSE IF response.status = HttpBadRequest
         THEN Returned(None,
                       <<failed \o response.reason,
                         "Error: " \o Get(Get(response.body, "error", EmptyDict),
                                          "message", unknown)>>)
         ELSE Returned(None, <<failed \o response.reason>>)

signup_user(email, password, response) ==
    IF response.received /\ response.status < HttpErrorMin
    THEN Returned(response.body, <<>>)
    ELSE ExceptRequestException(response, "Signup failed: ", "Unknown Firebase error")

login_user(email, password, response) ==
    IF response.received /\ response.status < HttpErrorMin
    THEN Returned(response.body, <<>>)
    ELSE ExceptRequestException(response, "Login failed: ",
                                "Invalid credentials or Firebase error")

\* logout_user without `st.session_state.messages = []`
logout_user_KeepsChat(ss) ==
    Put(Put(ss, "logged_in", FALSE), "user_info", None)

\* logout_user without `st.session_state.user_info = None`
logout_user_KeepsUserInfo(ss) ==
    Put(Put(ss, "logged_in", FALSE), "messages", <<>>)

logout_user(ss) ==
    Put(Put(Put(ss, "logged_in", FALSE), "user_info", None), "messages", <<>>)

-----------------------------------------------------------------------------
(* Pieces of the script *)

Greeting == "Hello! I'm your AI translator. Select languages and type to translate."

ChatCleared == "Chat cleared! How can I help you now?"

AssistantTurn(content) == [role |-> "assistant", content |-> content]

\* UserTurn with the two languages swapped
UserTurn_Swapped(prompt, source_language, target_language) ==
    [role |-> "user", content |-> prompt,
     source_lang |-> target_language, target_lang |-> source_language]

UserTurn(prompt, source_language, target_language) ==
    [role |-> "user", content |-> prompt,
     source_lang |-> source_language, target_lang |-> target_language]

\* keys of the widgets whose value the script reads back
WidgetKeys == {"source_lang_select", "target_lang_select"}

\* what one run of the script leaves: the session state, the messages shown, whether
\* st.rerun() ended it, whether an uncaught exception ended it, the external calls
\* made and the prompt handed to the generative model
Calls(s, l, g) == [signUp |-> s, logIn |-> l, generate |-> g]

Ran(ss, messages, rerun, raised, made, sent) ==
    [ss |-> ss, shown |-> messages, rerun |-> rerun, raised |-> raised,
     calls |-> made, sent |-> sent]

\* "Initialize session state for login status"
InitLoginState(ss) ==
    LET a == IF "logged_in" \in DOMAIN ss THEN ss ELSE Put(ss, "logged_in", FALSE)
    IN  IF "user_info" \in DOMAIN a THEN a ELSE Put(a, "user_info", None)

\* InitMessages that also seeds the greeting into an empty list
InitMessages_SeedsWhenEmpty(ss) ==
    IF "messages" \in DOMAIN ss /\ ss.messages # <<>>
    THEN ss
    ELSE Put(ss, "messages", <<AssistantTurn(Greeting)>>)

\* "Initialize chat history in session state if it doesn't exist"
InitMessages(ss) ==
    IF "messages" \in DOMAIN ss
    THEN ss
    ELSE Put(ss, "messages", <<AssistantTurn(Greeting)>>)

\* the two st.selectbox calls with index=0 given to both
Selectboxes_SameIndex(ss) ==
    LET a == IF "source_lang_select" \in DOMAIN ss
             THEN ss ELSE Put(ss, "source_lang_select", LANGUAGES[1])
    IN  IF "target_lang_select" \in DOMAIN a
        THEN a ELSE Put(a, "target_lang_select", LANGUAGES[1])

\* the two st.selectbox calls: a widget without a stored value takes its index
Selectboxes(ss) ==
    LET a == IF "source_lang_select" \in DOMAIN ss
             THEN ss ELSE Put(ss, "source_lang_select", LANGUAGES[1])
    IN  IF "target_lang_select" \in DOMAIN a
        THEN a ELSE Put(a, "target_lang_select", LANGUAGES[2])

\* the translator view down to the chat input
TranslatorTop(ss) == Selectboxes(InitMessages(ss))

\* at the end of a run the values of the widgets the run did not render are dropped
on_script_finished(ss, rendered) == Del(ss, WidgetKeys \ rendered)

\* the answer of gemini_model.generate_content(...).text: a text, or an exception
Answers ==
    {[ok |-> TRUE, text |-> t] : t \in Replies} \cup {[ok |-> FALSE, text |-> f] : f \in Failures}

NoAnswer == [ok |-> FALSE, text |-> ""]

translation_prompt(prompt, source_language, target_language) ==
    "Translate the following " \o source_language \o " text to " \o target_language
        \o ": \"" \o prompt \o "\""

-----------------------------------------------------------------------------
(* Event handlers *)

\* login_form without `if user_data:`: whatever login_user returns logs the user in
login_form_NoCheck(ss, login_email, login_password, response) ==
    IF login_email # "" /\ login_password # ""
    THEN LET user_data == login_user(login_email, login_password, response)
         IN  IF user_data.raised
             THEN Ran(ss, user_data.shown, FALSE, TRUE, Calls(0, 1, 0), "")
             ELSE Ran(Put(Put(ss, "logged_in", TRUE), "user_info", user_data.value),
                      user_data.shown \o <<"Logged in successfully!">>,
                      TRUE, FALSE, Calls(0, 1, 0), "")
    ELSE Ran(ss, <<"Please enter both email and password.">>,
             FALSE, FALSE, Calls(0, 0, 0), "")

\* login_form without `st.session_state.user_info = user_data`
login_form_NoUserInfo(ss, login_email, login_password, response) ==
    IF login_email # "" /\ login_password # ""
    THEN LET user_data == login_user(login_email, login_password, response)
         IN  IF user_data.raised
             THEN Ran(ss, user_data.shown, FALSE, TRUE, Calls(0, 1, 0), "")
             ELSE IF Truthy(user_data.value)
                  THEN Ran(Put(ss, "logged_in", TRUE),
                           user_data.shown \o <<"Logged in successfully!">>,
                           TRUE, FALSE, Calls(0, 1, 0), "")
                  ELSE Ran(ss, user_data.shown, FALSE, FALSE, Calls(0, 1, 0), "")
    ELSE Ran(ss, <<"Please enter both email and password.">>,
             FALSE, FALSE, Calls(0, 0, 0), "")

\* `if login_button:` in login_form
login_form(ss, login_email, login_password, response) ==
    IF login_email # "" /\ login_password # ""
    THEN LET user_data == login_user(login_email, login_password, response)
         IN  IF user_data.raised
             THEN Ran(ss, user_data.shown, FALSE, TRUE, Calls(0, 1, 0), "")
             ELSE IF Truthy(user_data.value)
                  THEN Ran(Put(Put(ss, "logged_in", TRUE), "user_info", user_data.value),
                           user_data.shown \o <<"Logged in successfully!">>,
                           TRUE, FALSE, Calls(0, 1, 0), "")
                  ELSE Ran(ss, user_data.shown, FALSE, FALSE, Calls(0, 1, 0), "")
    ELSE Ran(ss, <<"Please enter both email and password.">>,
             FALSE, FALSE, Calls(0, 0, 0), "")

\* register_form without `if register_password == confirm_password:`
register_form_NoConfirm(ss, register_email, register_password, confirm_password, response) ==
    IF register_email # "" /\ register_password # "" /\ confirm_password # ""
    THEN IF Len(register_password) >= MinPasswordLen
         THEN LET user_data == signup_user(register_email, register_password, response)
              IN  IF user_data.raised
                  THEN Ran(ss, user_data.shown, FALSE, TRUE, Calls(1, 0, 0), "")
                  ELSE IF Truthy(user_data.value)
                       THEN Ran(ss,
                                user_data.shown
                                   \o <<"Registration successful! You can now log in.">>,
                                FALSE, FALSE, Calls(1, 0, 0), "")
                       ELSE Ran(ss, user_data.shown, FALSE, FALSE, Calls(1, 0, 0), "")
         ELSE Ran(ss, <<"Password must be at least 6 characters long.">>,
                  FALSE, FALSE, Calls(0, 0, 0), "")
    ELSE Ran(ss, <<"Please fill in all fields.">>, FALSE, FALSE, Calls(0, 0, 0), "")

\* register_form with the commented-out lines active: log in right after registration
register_form_AutoLogin(ss, register_email, register_password, confirm_password, response) ==
    IF register_email # "" /\ register_password # "" /\ confirm_password # ""
    THEN IF register_password = confirm_password
         THEN IF Len(register_password) >= MinPasswordLen
              THEN LET user_data == signup_user(register_email, register_password, response)
                   IN  IF user_data.raised
                       THEN Ran(ss, user_data.shown, FALSE, TRUE, Calls(1, 0, 0), "")
                       ELSE IF Truthy(user_data.value)
                            THEN Ran(Put(Put(ss, "logged_in", TRUE),
                                         "user_info", user_data.value),
                                     user_data.shown
                                        \o <<"Registration successful! You can now log in.">>,
                                     TRUE, FALSE, Calls(1, 0, 0), "")
                            ELSE Ran(ss, user_data.shown, FALSE, FALSE, Calls(1, 0, 0), "")
              ELSE Ran(ss, <<"Password must be at least 6 characters long.">>,
                       FALSE, FALSE, Calls(0, 0, 0), "")
         ELSE Ran(ss, <<"Passwords do not match.">>, FALSE, FALSE, Calls(0, 0, 0), "")
    ELSE Ran(ss, <<"Please fill in all fields.">>, FALSE, FALSE, Calls(0, 0, 0), "")

\* `if register_button:` in register_form
register_form(ss, register_email, register_password, confirm_password, response) ==
    IF register_email # "" /\ register_password # "" /\ confirm_password # ""
    THEN IF register_password = confirm_password
         THEN IF Len(register_password) >= MinPasswordLen
              THEN LET user_data == signup_user(register_email, register_password, response)
                   IN  IF user_data.raised
                       THEN Ran(ss, user_data.shown, FALSE, TRUE, Calls(1, 0, 0), "")
                       ELSE IF Truthy(user_data.value)
                            THEN Ran(ss,
                                     user_data.shown
                                        \o <<"Registration successful! You can now log in.">>,
                                     FALSE, FALSE, Calls(1, 0, 0), "")
                            ELSE Ran(ss, user_data.shown, FALSE, FALSE, Calls(1, 0, 0), "")
              ELSE Ran(ss, <<"Password must be at least 6 characters long.">>,
                       FALSE, FALSE, Calls(0, 0, 0), "")
         ELSE Ran(ss, <<"Passwords do not match.">>, FALSE, FALSE, Calls(0, 0, 0), "")
    ELSE Ran(ss, <<"Please fill in all fields.">>, FALSE, FALSE, Calls(0, 0, 0), "")

\* chat_input whose except branch shows the error but records nothing in the transcript
chat_input_ErrorNotRecorded(ss, prompt, answer) ==
    LET source_language == ss.source_lang_select
        target_language == ss.target_lang_select
        asked == Append(ss.messages, UserTurn(prompt, source_language, target_language))
        sent  == translation_prompt(prompt, source_language, target_language)
    IN  IF answer.ok
        THEN Ran(Put(ss, "messages", Append(asked, AssistantTurn(answer.text))),
                 <<>>, FALSE, FALSE, Calls(0, 0, 1), sent)
        ELSE LET error_message == "An error occurred during translation: " \o answer.text
             IN  Ran(Put(ss, "messages", asked),
                     <<error_message,
                       "Please try again or check your API key/network connection. Quota limits might also apply.">>,
                     FALSE, FALSE, Calls(0, 0, 1), sent)

\* chat_input whose except branch records a fixed text instead of the exception's
chat_input_ErrorWithoutCause(ss, prompt, answer) ==
    LET source_language == ss.source_lang_select
        target_language == ss.target_lang_select
        asked == Append(ss.messages, UserTurn(prompt, source_language, target_language))
        sent  == translation_prompt(prompt, source_language, target_language)
    IN  IF answer.ok
        THEN Ran(Put(ss, "messages", Append(asked, AssistantTurn(answer.text))),
                 <<>>, FALSE, FALSE, Calls(0, 0, 1), sent)
        ELSE LET error_message == "An error occurred during translation"
             IN  Ran(Put(ss, "messages",
                         Append(asked, AssistantTurn("Error: " \o error_message))),
                     <<error_message,
                       "Please try again or check your API key/network connection. Quota limits might also apply.">>,
                     FALSE, FALSE, Calls(0, 0, 1), sent)

\* chat_input that calls generate_content a second time when the first call fails
chat_input_RetryOnce(ss, prompt, answer) ==
    LET source_language == ss.source_lang_select
        target_language == ss.target_lang_select
        asked == Append(ss.messages, UserTurn(prompt, source_language, target_language))
        sent  == translation_prompt(prompt, source_language, target_language)
    IN  IF answer.ok
        THEN Ran(Put(ss, "messages", Append(asked, AssistantTurn(answer.text))),
                 <<>>, FALSE, FALSE, Calls(0, 0, 1), sent)
        ELSE LET error_message == "An error occurred during translation: " \o answer.text
             IN  Ran(Put(ss, "messages",
                         Append(asked, AssistantTurn("Error: " \o error_message))),
                     <<error_message,
                       "Please try again or check your API key/network connection. Quota limits might also apply.">>,
                     FALSE, FALSE, Calls(0, 0, 2), sent)

\* chat_input that drops a submission equal to the one just before it
chat_input_Deduplicating(ss, prompt, answer) ==
    LET source_language == ss.source_lang_select
        target_language == ss.target_lang_select
        turn  == UserTurn(prompt, source_language, target_language)
        asked == Append(ss.messages, turn)
        sent  == translation_prompt(prompt, source_language, target_language)
    IN  IF Len(ss.messages) >= 2 /\ ss.messages[Len(ss.messages) - 1] = turn
        THEN Ran(ss, <<>>, FALSE, FALSE, Calls(0, 0, 0), "")
        ELSE IF answer.ok
             THEN Ran(Put(ss, "messages", Append(asked, AssistantTurn(answer.text))),
                      <<>>, FALSE, FALSE, Calls(0, 0, 1), sent)
             ELSE LET error_message ==
                          "An error occurred during translation: " \o answer.text
                  IN  Ran(Put(ss, "messages",
                              Append(asked, AssistantTurn("Error: " \o error_message))),
                          <<error_message,
                            "Please try again or check your API key/network connection. Quota limits might also apply.">>,
                          FALSE, FALSE, Calls(0, 0, 1), sent)

\* `if prompt := st.chat_input(...)`
chat_input(ss, prompt, answer) ==
    LET source_language == ss.source_lang_select
        target_language == ss.target_lang_select
        asked == Append(ss.messages, UserTurn(prompt, source_language, target_language))
        sent  == translation_prompt(prompt, source_language, target_language)
    IN  IF answer.ok
        THEN Ran(Put(ss, "messages", Append(asked, AssistantTurn(answer.text))),
                 <<>>, FALSE, FALSE, Calls(0, 0, 1), sent)
        ELSE LET error_message == "An error occurred during translation: " \o answer.text
             IN  Ran(Put(ss, "messages",
                         Append(asked, AssistantTurn("Error: " \o error_message))),
                     <<error_message,
                       "Please try again or check your API key/network connection. Quota limits might also apply.">>,
                     FALSE, FALSE, Calls(0, 0, 1), sent)

\* clear_chat without `st.session_state.messages = []`
clear_chat_KeepsChat(ss) ==
    Ran(Put(ss, "messages", Append(ss.messages, AssistantTurn(ChatCleared))),
        <<>>, TRUE, FALSE, Calls(0, 0, 0), "")

\* clear_chat that wipes the login keys along with the transcript
clear_chat_WipesSession(ss) ==
    Ran(Put(Put(Put(ss, "messages", <<AssistantTurn(ChatCleared)>>),
                "logged_in", FALSE), "user_info", None),
        <<>>, TRUE, FALSE, Calls(0, 0, 0), "")

\* `if st.button("Clear Chat", ...)`
clear_chat(ss) ==
    Ran(Put(ss, "messages", <<AssistantTurn(ChatCleared)>>),
        <<>>, TRUE, FALSE, Calls(0, 0, 0), "")

\* `if st.sidebar.button("Logout", ...)`
logout_button(ss) ==
    Ran(logout_user(ss), <<>>, TRUE, FALSE, Calls(0, 0, 0), "")

-----------------------------------------------------------------------------
(* The state machine: one step is one run of the script *)

BlankLast ==
    [op |-> "start", email |-> "", password |-> "", confirm |-> "", response |-> NoCall,
     text |-> "", src |-> "", tgt |-> "", answer |-> NoAnswer, sent |-> "", had |-> 0,
     sel |-> <<"", "">>]

\* the transcript a series of submissions starts from, the number of submissions of
\* the series, what each submitted and was answered, the model calls they made, and
\* whether Logout was pressed earlier in this browser session
NewHist(ss, out) ==
    [base |-> Get(ss, "messages", <<>>), n |-> 0, subs |-> <<>>, gen |-> 0, out |-> out]

ResetHist(ss) == NewHist(ss, hist.out)

HadMessages == Len(Get(session_state, "messages", <<>>))

\* the state after the first run of the script in a new browser session
Init ==
    /\ secrets \in Deployments
    /\ session_state = IF StartupError(secrets) = ""
                       THEN on_script_finished(InitLoginState(EmptyDict), {})
                       ELSE EmptyDict
    /\ accounts = {}
    /\ pc = "idle"
    /\ shown = IF StartupError(secrets) = "" THEN <<>> ELSE <<StartupError(secrets)>>
    /\ calls = Calls(0, 0, 0)
    /\ crashed = FALSE
    /\ last = BlankLast
    /\ hist = NewHist(EmptyDict, FALSE)

\* what a run leaves behind; `rendered` are the widgets the run reached
Finish(run, rendered) ==
    /\ session_state' = on_script_finished(run.ss, rendered)
    /\ shown' = run.shown
    /\ calls' = run.calls
    /\ crashed' = run.raised
    /\ pc' = IF run.rerun THEN "rerun" ELSE "idle"

\* the translator branch taken without looking at logged_in
TranslatorView_Ungated == pc = "idle"

\* the run gets past the startup checks
Started == StartupError(secrets) = ""

AuthView == pc = "idle" /\ ~InitLoginState(session_state).logged_in

TranslatorView == pc = "idle" /\ InitLoginState(session_state).logged_in

\* the user submits the Login form
Login ==
    /\ Started
    /\ AuthView
    /\ UNCHANGED secrets
    /\ \E email \in Emails, password \in Passwords :
         \E a \in LogInAnswers(email, password) :
            LET run == login_form(InitLoginState(session_state), email, password, a.response)
            IN  /\ Finish(run, {})
                /\ accounts' = accounts
                /\ last' = [BlankLast EXCEPT !.op = "login", !.email = email,
                                             !.password = password,
                                             !.response = IF run.calls.logIn > 0
                                                          THEN a.response ELSE NoCall,
                                             !.had = HadMessages]
                /\ hist' = ResetHist(run.ss)

\* the user submits the Register form
Register ==
    /\ Started
    /\ AuthView
    /\ UNCHANGED secrets
    /\ \E email \in Emails, password \in Passwords, confirm \in Passwords :
         \E a \in SignUpAnswers(email, password) :
            LET run == register_form(InitLoginState(session_state),
                                     email, password, confirm, a.response)
                called == run.calls.signUp > 0
            IN  /\ Finish(run, {})
                /\ accounts' = IF called THEN accounts \cup a.adds ELSE accounts
                /\ last' = [BlankLast EXCEPT !.op = "register", !.email = email,
                                             !.password = password, !.confirm = confirm,
                                             !.response = IF called THEN a.response ELSE NoCall,
                                             !.had = HadMessages]
                /\ hist' = ResetHist(run.ss)

\* the user sends a text through the chat input
Submit ==
    /\ Started
    /\ TranslatorView
    /\ UNCHANGED secrets
    /\ LET top == TranslatorTop(InitLoginState(session_state))
       IN  /\ Len(top.messages) + 2 <= MaxMessages
           /\ \E prompt \in Texts, answer \in Answers :
                LET run == chat_input(top, prompt, answer)
                IN  /\ Finish(run, WidgetKeys)
                    /\ last' = [BlankLast EXCEPT !.op = "submit", !.text = prompt,
                                                 !.src = top.source_lang_select,
                                                 !.tgt = top.target_lang_select,
                                                 !.answer = answer, !.sent = run.sent,
                                                 !.had = HadMessages]
                    /\ hist' = [hist EXCEPT
                                   !.n = @ + 1,
                                   !.subs = Append(@, [text |-> prompt,
                                                       src |-> top.source_lang_select,
                                                       tgt |-> top.target_lang_select,
                                                       answer |-> answer]),
                                   !.gen = @ + run.calls.generate]
                    /\ UNCHANGED accounts

\* the user picks another entry in one of the selectboxes
SelectLanguage ==
    /\ Started
    /\ TranslatorView
    /\ UNCHANGED secrets
    /\ \E key \in WidgetKeys, language \in Selectable :
         LET top == TranslatorTop(Put(InitLoginState(session_state), key, language))
         IN  /\ Finish(Ran(top, <<>>, FALSE, FALSE, Calls(0, 0, 0), ""), WidgetKeys)
             /\ last' = [BlankLast EXCEPT !.op = "select", !.text = last.text,
                                          !.src = last.src, !.tgt = last.tgt,
                                          !.answer = last.answer, !.sent = last.sent,
                                          !.had = HadMessages]
             /\ UNCHANGED <<accounts, hist>>

\* the user presses Clear Chat
ClearChat ==
    /\ Started
    /\ TranslatorView
    /\ UNCHANGED secrets
    /\ LET run == clear_chat(TranslatorTop(InitLoginState(session_state)))
       IN  /\ Finish(run, WidgetKeys)
           /\ last' = [BlankLast EXCEPT !.op = "clear", !.had = HadMessages]
           /\ hist' = ResetHist(run.ss)
           /\ UNCHANGED accounts

\* the user presses Logout; st.rerun() ends the run above the selectboxes, and whether
\* Streamlit treats a run ended that way as finished (and so drops the values of the
\* widgets it did not reach) differs between versions: both are allowed here, the run
\* that follows drops them in any case
Logout ==
    /\ Started
    /\ TranslatorView
    /\ UNCHANGED secrets
    /\ LET run == logout_button(InitLoginState(session_state))
       IN  /\ \E kept \in {{}, WidgetKeys} : Finish(run, kept)
           /\ last' = [BlankLast EXCEPT
                          !.op = "logout", !.had = HadMessages,
                          !.sel = <<Get(session_state, "source_lang_select", ""),
                                    Get(session_state, "target_lang_select", "")>>]
           /\ hist' = NewHist(run.ss, TRUE)
           /\ UNCHANGED accounts

\* the run that st.rerun() starts: the script from the top, with no event
Rerun ==
    /\ Started
    /\ pc = "rerun"
    /\ UNCHANGED secrets
    /\ LET ss == InitLoginState(session_state)
           after == IF ss.logged_in
                    THEN on_script_finished(TranslatorTop(ss), WidgetKeys)
                    ELSE on_script_finished(ss, {})
       IN  /\ session_state' = after
           /\ hist' = ResetHist(after)
    /\ pc' = "idle"
    /\ shown' = <<>>
    /\ crashed' = FALSE
    /\ UNCHANGED <<accounts, calls, last>>

\* a run of the script in a deployment with a configuration value missing: the page
\* is loaded again, the startup check shows its error and st.stop() ends the run
Halt ==
    /\ ~Started
    /\ shown' = <<StartupError(secrets)>>
    /\ calls' = Calls(0, 0, 0)
    /\ crashed' = FALSE
    /\ pc' = "idle"
    /\ last' = [BlankLast EXCEPT !.op = "halted", !.had = HadMessages]
    /\ UNCHANGED <<secrets, session_state, accounts, hist>>

Next ==
    Login \/ Register \/ Submit \/ SelectLanguage \/ ClearChat \/ Logout \/ Rerun \/ Halt

Spec == Init /\ [][Next]_vars

-----------------------------------------------------------------------------
(* Properties *)

logged_in == Get(session_state, "logged_in", FALSE)

user_info == Get(session_state, "user_info", None)

\* the transcript, empty when the key is absent
Transcript(ss) == Get(ss, "messages", <<>>)

\* the provider answered the last request with a non-empty JSON record
Accepted(response) ==
    response.received /\ response.status < HttpErrorMin /\ Truthy(response.body)

\* the provider answered the last request with an HTTP error status
Rejected(response) == response.received /\ response.status >= HttpErrorMin

ValidationMessages ==
    {"Please enter both email and password.", "Please fill in all fields.",
     "Passwords do not match.", "Password must be at least 6 characters long."}

\* C1: while logged_in is false no step calls the generative model and no step
\* touches the transcript, and the only user events taken are Login and Register
\* (none at all where the startup checks stop the run).
C1_GatedOnAuthentication ==
    [][~logged_in =>
          /\ calls'.generate = 0
          /\ last'.sent = ""
          /\ ("messages" \in DOMAIN session_state') = ("messages" \in DOMAIN session_state)
          /\ Transcript(session_state') = Transcript(session_state)
          /\ (pc = "idle" /\ ConfigKeys \subseteq secrets =>
                 last'.op \in {"login", "register"})
          /\ (pc = "idle" /\ ~(ConfigKeys \subseteq secrets) => last'.op = "halted")]_vars

\* an unauthenticated session that holds a transcript from an earlier login and has
\* just handled a Login or Register submission
C1_Witness ==
    /\ ~logged_in
    /\ pc = "idle"
    /\ last.op \in {"login", "register"}
    /\ "messages" \in DOMAIN session_state
    /\ calls.generate = 0

\* C2: a Login submission the provider rejects with an HTTP error leaves the whole
\* session state as it was, with logged_in false and user_info None, on the Auth view.
C2_RejectedLoginChangesNothing ==
    [][(pc = "idle" /\ last'.op = "login" /\ Rejected(last'.response)) =>
          /\ session_state' = session_state
          /\ ~logged_in'
          /\ user_info' = None
          /\ pc' = "idle"]_vars

\* a login with a registered email and the wrong password was rejected
C2_Witness ==
    /\ last.op = "login"
    /\ Rejected(last.response)
    /\ last.response.status = HttpBadRequest
    /\ Registered(last.email)
    /\ <<last.email, last.password>> \notin accounts
    /\ ~logged_in

\* C3: after a Login submission the provider accepts (which it does only for
\* credentials a signUp registered), logged_in is true and user_info is the record
\* the provider returned, whose email is the submitted email.
C3_SignUpThenLogIn ==
    (last.op = "login" /\ Accepted(last.response)) =>
        /\ <<last.email, last.password>> \in accounts
        /\ logged_in
        /\ user_info = last.response.body
        /\ user_info.email = last.email

\* a registered account with a password of six characters or more has logged in
C3_Witness ==
    /\ last.op = "login"
    /\ Accepted(last.response)
    /\ Len(last.password) >= MinPasswordLen
    /\ logged_in
    /\ pc = "idle"

\* a Register submission that local validation refuses
InvalidRegister(l) ==
    /\ l.op = "register"
    /\ \/ l.password # l.confirm
       \/ Len(l.password) < MinPasswordLen
       \/ l.email = "" \/ l.password = "" \/ l.confirm = ""

\* a Login submission that local validation refuses
InvalidLogin(l) == l.op = "login" /\ (l.email = "" \/ l.password = "")

\* C4: a Register or Login submission that fails local validation issues no external
\* call, shows exactly one validation message, and changes neither the session state
\* nor the provider's accounts.
C4_ValidationShortCircuits ==
    [][(pc = "idle" /\ (InvalidRegister(last') \/ InvalidLogin(last'))) =>
          /\ calls' = Calls(0, 0, 0)
          /\ last'.response = NoCall
          /\ accounts' = accounts
          /\ Len(shown') = 1
          /\ shown'[1] \in ValidationMessages
          /\ session_state' = session_state
          /\ pc' = "idle"]_vars

\* a registration with every field filled, a long enough password and a different
\* confirmation was refused
C4_Witness ==
    /\ last.op = "register"
    /\ last.email # ""
    /\ Len(last.password) >= MinPasswordLen
    /\ last.confirm # ""
    /\ last.password # last.confirm
    /\ shown = <<"Passwords do not match.">>
    /\ calls.signUp = 0

\* C5: after hist.n text submissions in a row (language changes in between allowed),
\* the transcript is hist.base, entry for entry, followed by 2 * hist.n more entries.
C5_AppendOnly ==
    LET m == Transcript(session_state)
    IN  /\ Len(m) = Len(hist.base) + 2 * hist.n
        /\ SubSeq(m, 1, Len(hist.base)) = hist.base

\* two submissions in a row onto a non-empty transcript, one failed and one answered
C5_Witness ==
    /\ hist.n = 2
    /\ Len(hist.base) > 0
    /\ last.op = "submit"
    /\ \E i \in 1..Len(Transcript(session_state)) :
          Contains(Transcript(session_state)[i].content, "quota exceeded")
    /\ \E i \in 1..Len(Transcript(session_state)) :
          Transcript(session_state)[i].content \in Replies

\* C6: after a submission the model answered, and through any later change of the
\* selectboxes, the transcript ends with the user turn holding the submitted text and
\* the languages selected when it was submitted, then the assistant turn holding the
\* model's text.
C6_SuccessfulSubmission ==
    (last.op \in {"submit", "select"} /\ last.text # "" /\ last.answer.ok) =>
        LET m == Transcript(session_state)
            n == Len(m)
        IN  /\ n >= 2
            /\ m[n - 1] = [role |-> "user", content |-> last.text,
                           source_lang |-> last.src, target_lang |-> last.tgt]
            /\ m[n] = [role |-> "assistant", content |-> last.answer.text]

\* the source language was changed after an answered submission
C6_Witness ==
    /\ last.op = "select"
    /\ last.text # ""
    /\ last.answer.ok
    /\ last.src # last.tgt
    /\ session_state.source_lang_select # last.src

\* C7: a submission whose model call fails keeps the earlier transcript, the user turn
\* it appended, and ends with an assistant turn whose content contains the failure
\* message; logged_in and user_info are as before.
C7_FailedSubmission ==
    [][(pc = "idle" /\ last'.op = "submit" /\ ~last'.answer.ok) =>
          LET m == Transcript(session_state')
              n == Len(m)
          IN  /\ n = Len(Transcript(session_state)) + 2
              /\ SubSeq(m, 1, n - 2) = Transcript(session_state)
              /\ m[n - 1] = [role |-> "user", content |-> last'.text,
                             source_lang |-> last'.src, target_lang |-> last'.tgt]
              /\ m[n].role = "assistant"
              /\ Contains(m[n].content, last'.answer.text)
              /\ logged_in' = logged_in
              /\ user_info' = user_info]_vars

\* a submission failed with "quota exceeded" in a logged-in session
C7_Witness ==
    /\ last.op = "submit"
    /\ ~last.answer.ok
    /\ last.answer.text = "quota exceeded"
    /\ logged_in
    /\ user_info # None

\* C8: after Logout logged_in is false, user_info is None and the transcript is the
\* empty list, whatever it held; and logout_user applied twice gives what it gives
\* applied once.
C8_LogoutResets ==
    /\ last.op = "logout" =>
          /\ ~logged_in
          /\ user_info = None
          /\ "messages" \in DOMAIN session_state
          /\ session_state.messages = <<>>
    /\ logout_user(logout_user(session_state)) = logout_user(session_state)
    /\ last.op = "logout" => logout_user(session_state) = session_state

\* Logout was pressed with three or more messages in the transcript
C8_Witness ==
    /\ last.op = "logout"
    /\ last.had >= 3
    /\ pc = "idle"

\* C9: Clear Chat on a non-empty transcript leaves exactly one entry, the assistant's
\* "Chat cleared!" turn, and leaves logged_in and user_info as they were, also through
\* the run st.rerun() starts.
C9_ClearChat ==
    [][(last'.op = "clear" /\ last'.had > 0) =>
          LET m == Transcript(session_state')
          IN  /\ Len(m) = 1
              /\ m[1] = [role |-> "assistant", content |-> ChatCleared]
              /\ logged_in' = logged_in
              /\ user_info' = user_info
              /\ logged_in']_vars

\* Clear Chat was pressed with three or more messages in the transcript
C9_Witness ==
    /\ last.op = "clear"
    /\ last.had >= 3
    /\ pc = "idle"
    /\ Len(Transcript(session_state)) = 1

\* C10: a Register submission the provider accepts leaves logged_in false and
\* user_info None on the Auth view, and logged_in turns true only in a step that is a
\* Login submission the provider accepted.
C10_RegisterDoesNotAuthenticate ==
    [][/\ (pc = "idle" /\ last'.op = "register" /\ Accepted(last'.response)) =>
             /\ ~logged_in'
             /\ user_info' = None
             /\ session_state' = session_state
             /\ pc' = "idle"
       /\ (~logged_in /\ logged_in') =>
             /\ last'.op = "login"
             /\ Accepted(last'.response)]_vars

\* an accepted registration has created the account and the session is not logged in
C10_Witness ==
    /\ last.op = "register"
    /\ Accepted(last.response)
    /\ <<last.email, last.password>> \in accounts
    /\ shown = <<"Registration successful! You can now log in.">>
    /\ ~logged_in
    /\ user_info = None

StartupErrors ==
    {"Google API Key not found in Streamlit secrets. Please add it to .streamlit/secrets.toml",
     "Missing Firebase configuration in .streamlit/secrets.toml. Please check your setup."}

\* C11: in a deployment where any of the five configuration values is missing, every
\* run shows one startup error and stops: the session state has no key at all, no
\* external call was made, no account exists and no user event was handled.
C11_MissingConfigurationHalts ==
    ~(ConfigKeys \subseteq secrets) =>
        /\ session_state = EmptyDict
        /\ Len(shown) = 1
        /\ shown[1] \in StartupErrors
        /\ calls = Calls(0, 0, 0)
        /\ last.sent = ""
        /\ last.response = NoCall
        /\ accounts = {}
        /\ last.op \in {"start", "halted"}
        /\ pc = "idle"
        /\ ~crashed

\* the page was loaded again in a deployment that has the Google key and lacks one of
\* the Firebase settings
C11_Witness ==
    /\ "GOOGLE_API_KEY" \in secrets
    /\ ~(FirebaseKeys \subseteq secrets)
    /\ last.op = "halted"

\* C12: the last user action issued at most one external call, of the kind its form
\* makes (Login: signInWithPassword, Register: signUp, text submission:
\* generate_content), also when that call failed; Clear Chat, Logout and a selectbox
\* change issued none.
C12_NoRetries ==
    /\ calls.signUp + calls.logIn + calls.generate <= 1
    /\ last.op = "login" => calls.signUp = 0 /\ calls.generate = 0
    /\ last.op = "register" => calls.logIn = 0 /\ calls.generate = 0
    /\ last.op = "submit" => calls = Calls(0, 0, 1)
    /\ last.op \in {"clear", "logout", "select", "halted", "start"} => calls = Calls(0, 0, 0)
    /\ (last.op \in {"login", "register"} /\ last.response # NoCall) =>
          calls.signUp + calls.logIn = 1

\* a text submission whose single model call failed
C12_Witness ==
    /\ last.op = "submit"
    /\ ~last.answer.ok
    /\ calls.generate = 1

\* the provider answered with a success status and an empty JSON object
EmptySuccess(response) ==
    response.received /\ response.status < HttpErrorMin /\ response.body = EmptyDict

\* the last user action ended in one of the failure outcomes
FailureOutcome ==
    \/ InvalidRegister(last)
    \/ InvalidLogin(last)
    \/ last.op \in {"login", "register"} /\ Rejected(last.response)
    \/ last.op \in {"login", "register"} /\ last.response = NoResponse
    \/ last.op \in {"login", "register"} /\ EmptySuccess(last.response)
    \/ last.op = "submit" /\ ~last.answer.ok

\* C13: whenever the last user action ended in a failure outcome (validation failure,
\* HTTP error status, transport failure, success status with an empty body, model
\* failure), its run showed at least one message.
C13_NoSilentFailure ==
    FailureOutcome => Len(shown) >= 1

\* C14: after a Login or Register submission whose request got no HTTP response, the
\* run ended without an uncaught exception, after showing the failure, and the
\* session is still not logged in, with no account, on the Auth view.
C14_TransportFailureIsReturned ==
    (last.op \in {"login", "register"} /\ last.response = NoResponse) =>
        /\ ~crashed
        /\ Len(shown) >= 1
        /\ ~logged_in
        /\ user_info = None
        /\ pc = "idle"

\* C15: the submissions of the current series each made one model call and each left
\* its own user turn and assistant turn, pair after pair in submission order behind
\* the transcript the series started from; and every user turn of the transcript is
\* followed by one assistant turn, after which comes a user turn or the end.
C15_SubmissionOrder ==
    LET m == Transcript(session_state)
        b == Len(hist.base)
    IN  /\ Len(hist.subs) = hist.n
        /\ hist.gen = hist.n
        /\ Len(m) = b + 2 * hist.n
        /\ \A k \in 1..Len(hist.subs) :
              /\ m[b + 2 * k - 1] = [role |-> "user", content |-> hist.subs[k].text,
                                     source_lang |-> hist.subs[k].src,
                                     target_lang |-> hist.subs[k].tgt]
              /\ m[b + 2 * k].role = "assistant"
              /\ hist.subs[k].answer.ok =>
                    m[b + 2 * k].content = hist.subs[k].answer.text
              /\ ~hist.subs[k].answer.ok =>
                    Contains(m[b + 2 * k].content, hist.subs[k].answer.text)
        /\ \A i \in 1..Len(m) :
              m[i].role = "user" =>
                 /\ i < Len(m)
                 /\ m[i + 1].role = "assistant"
                 /\ (i + 2 <= Len(m) => m[i + 2].role = "user")

\* two submissions in a row with the same text, the same languages and the same answer
C15_Witness ==
    /\ hist.n = 2
    /\ hist.subs[1] = hist.subs[2]
    /\ hist.subs[1].answer.ok
    /\ last.op = "submit"
    /\ Len(Transcript(session_state)) = Len(hist.base) + 4

\* C16: logged_in turns true only in the step of a Login submission the provider
\* accepted and turns false only in the step of a Logout; a text submission, a
\* selectbox change, Clear Chat, a Register submission, a Login submission that was
\* not accepted, and the run st.rerun() starts leave logged_in and user_info alone.
C16_TransitionsOnlyOnUserActions ==
    [][/\ (~logged_in /\ logged_in') =>
             (pc = "idle" /\ last'.op = "login" /\ Accepted(last'.response))
       /\ (logged_in /\ ~logged_in') => (pc = "idle" /\ last'.op = "logout")
       /\ (pc = "idle" /\ last'.op = "login" /\ Accepted(last'.response)) => logged_in'
       /\ (pc = "idle" /\ last'.op = "logout") => ~logged_in'
       /\ (\/ pc = "rerun"
           \/ last'.op \in {"submit", "select", "clear", "register", "halted"}
           \/ last'.op = "login" /\ ~Accepted(last'.response)) =>
             /\ logged_in' = logged_in
             /\ user_info' = user_info]_vars

\* a second login in one browser session: logged in again after a Logout
C16_Witness ==
    /\ last.op = "login"
    /\ Accepted(last.response)
    /\ logged_in
    /\ pc = "idle"
    /\ Transcript(session_state) = <<>>
    /\ "messages" \in DOMAIN session_state

C18_FlagMatchesAccount ==
    /\ logged_in <=> (user_info # None)
    /\ logged_in => Truthy(user_info)

\* a logged-in session of bob@x.io that has used the translator view
C18_Witness ==
    /\ logged_in
    /\ user_info = AccountRecord("bob@x.io")
    /\ last.op = "submit"

\* C19: whenever logged_in is false the transcript is absent or empty, and the
\* transcript a login starts with holds nothing but, at most, the seeded greeting: no
\* turn of an earlier login is in it.
C19_TranscriptIsolatedBetweenLogins ==
    /\ ~logged_in => Transcript(session_state) = <<>>
    /\ (last.op = "login" /\ logged_in) =>
          Transcript(session_state) \in {<<>>, <<[role |-> "assistant", content |-> Greeting]>>}

\* after a login session that left at least three messages and was logged out, an
\* account is logged in again and has made its first submission
C19_Witness ==
    /\ hist.out
    /\ logged_in
    /\ last.op = "submit"
    /\ hist.n = 1
    /\ Len(Transcript(session_state)) = 2

\* C20: the transcript a login starts with is the single assistant greeting when no
\* Logout happened before in the browser session, and the empty list after a Logout;
\* the greeting is in no transcript of a session that was logged out before, and
\* submissions made onto the empty transcript put a user turn first.
C20_GreetingOnlyOnFirstEntry ==
    /\ (pc = "idle" /\ last.op = "login" /\ logged_in) =>
          Transcript(session_state) =
             IF hist.out THEN <<>> ELSE <<[role |-> "assistant", content |-> Greeting]>>
    /\ hist.out =>
          \A i \in 1..Len(Transcript(session_state)) :
             Transcript(session_state)[i].content # Greeting
    /\ (hist.out /\ logged_in /\ hist.base = <<>> /\ Transcript(session_state) # <<>>) =>
          Transcript(session_state)[1].role = "user"

\* the translator view entered again after a Logout, with an empty transcript
C20_Witness ==
    /\ pc = "idle"
    /\ last.op = "login"
    /\ logged_in
    /\ hist.out
    /\ Transcript(session_state) = <<>>

====
